---- MODULE Spec2Model ----
(***************************************************************************)
(* License-expression analysis (src/parser/src): tokenizer, recursive-     *)
(* descent parser, evaluator over the license registry, compatibility      *)
(* relation and the risk / recommendation engine.                          *)
(*                                                                         *)
(* Text is modelled as a sequence of one-character strings so that         *)
(* to_lowercase, to_uppercase and str::contains are computed, not assumed. *)
(* Option<T> is a sequence of length 0 (None) or 1 (Some).                 *)
(***************************************************************************)
EXTENDS Integers, Sequences, FiniteSets, TLC

VARIABLES license_db, expression, analysis, lic_a, lic_b, compat, calls

vars == <<license_db, expression, analysis, lic_a, lic_b, compat, calls>>

(***************************************************************************)
(* Characters and strings                                                  *)
(***************************************************************************)
UpperLetters ==
  <<"A","B","C","D","E","F","G","H","I","J","K","L","M",
    "N","O","P","Q","R","S","T","U","V","W","X","Y","Z">>

LowerLetters ==
  <<"a","b","c","d","e","f","g","h","i","j","k","l","m",
    "n","o","p","q","r","s","t","u","v","w","x","y","z">>

LetterIndex(letters, c) == CHOOSE i \in DOMAIN letters : letters[i] = c

char_to_lowercase(c) ==
  IF \E i \in DOMAIN UpperLetters : UpperLetters[i] = c
  THEN LowerLetters[LetterIndex(UpperLetters, c)]
  ELSE c

char_to_uppercase(c) ==
  IF \E i \in DOMAIN LowerLetters : LowerLetters[i] = c
  THEN UpperLetters[LetterIndex(LowerLetters, c)]
  ELSE c

to_lowercase(s) == [i \in 1..Len(s) |-> char_to_lowercase(s[i])]

to_uppercase(s) == [i \in 1..Len(s) |-> char_to_uppercase(s[i])]

\* str::contains: sub occurs in s as a contiguous run
contains(s, sub) ==
  \E i \in 0..(Len(s) - Len(sub)) : SubSeq(s, i + 1, i + Len(sub)) = sub

Range(s) == {s[i] : i \in DOMAIN s}

Some(x) == <<x>>

None == <<>>

\* a let binding of the source, "let value = ..; body": the bound expression
\* is evaluated once, and body is given its value
Let(value, body(_)) == body(value)

(***************************************************************************)
(* String literals of the source                                           *)
(***************************************************************************)
Str_GPL == <<"G","P","L">>
Str_LGPL == <<"L">> \o Str_GPL
Str_v20 == <<"-","2",".","0">>
Str_v21 == <<"-","2",".","1">>
Str_v30 == <<"-","3",".","0">>
Str_only == <<"-","o","n","l","y">>
Str_or_later == <<"-","o","r","-","l","a","t","e","r">>
Str_Clause == <<"-","C","l","a","u","s","e">>
Str_BSD == <<"B","S","D">>
Str_Apache == <<"A","p","a","c","h","e">>

Str_GPL_2_0 == Str_GPL \o Str_v20
Str_GPL_3_0 == Str_GPL \o Str_v30
Str_GPL_2_0_only == Str_GPL_2_0 \o Str_only
Str_GPL_3_0_only == Str_GPL_3_0 \o Str_only
Str_GPL_2_0_or_later == Str_GPL_2_0 \o Str_or_later
Str_LGPL_2_0 == Str_LGPL \o Str_v20
Str_LGPL_2_1 == Str_LGPL \o Str_v21
Str_LGPL_3_0 == Str_LGPL \o Str_v30
Str_LGPL_2_1_only == Str_LGPL_2_1 \o Str_only
Str_LGPL_2_1_or_later == Str_LGPL_2_1 \o Str_or_later
Str_LGPL_3_0_only == Str_LGPL_3_0 \o Str_only
Str_LGPL_3_0_or_later == Str_LGPL_3_0 \o Str_or_later
Str_MIT == <<"M","I","T">>
Str_Expat == <<"E","x","p","a","t">>
Str_X11 == <<"X","1","1">>
Str_BSD_2_Clause == Str_BSD \o <<"-","2">> \o Str_Clause
Str_BSD_3_Clause == Str_BSD \o <<"-","3">> \o Str_Clause
Str_BSD_4_Clause == Str_BSD \o <<"-","4">> \o Str_Clause
Str_Apache_1_1 == Str_Apache \o <<"-","1",".","1">>
Str_Apache_2_0 == Str_Apache \o Str_v20
Str_CC0_1_0 == <<"C","C","0","-","1",".","0">>
Str_Unlicense == <<"U","n","l","i","c","e","n","s","e">>
Str_OR == <<"O","R">>
Str_AND == <<"A","N","D">>
Str_WITH == <<"W","I","T","H">>
Str_LParen == <<"(">>
Str_RParen == <<")">>
Str_Unknown_License ==
  <<"U","n","k","n","o","w","n"," ","L","i","c","e","n","s","e",":"," ">>

(***************************************************************************)
(* models.rs: categories, their strength order, risk levels                *)
(***************************************************************************)
NewCopyleftStrength ==
  {"CLA", "Commercial", "Copyleft", "CopyleftLimited", "FreeRestricted",
   "PatentLicense", "Permissive", "ProprietaryFree", "PublicDomain",
   "SourceAvailable", "UnstatedLicense"}

RiskLevel == {"Low", "Medium", "High", "Critical", "Unknown"}

new_copyleft_strength_order(strength) ==
  CASE strength = "UnstatedLicense" -> 10
    [] strength = "Commercial" -> 9
    [] strength = "Copyleft" -> 8
    [] strength = "SourceAvailable" -> 7
    [] strength = "CopyleftLimited" -> 6
    [] strength = "FreeRestricted" -> 5
    [] strength = "ProprietaryFree" -> 4
    [] strength = "PatentLicense" -> 3
    [] strength = "CLA" -> 2
    [] strength = "Permissive" -> 1
    [] strength = "PublicDomain" -> 0

(***************************************************************************)
(* license_database.rs: NewLicense and the registry loader                 *)
(***************************************************************************)
NewLicense(id, name, strength) ==
  [id |-> id, name |-> name, copyleft_strength |-> strength]

\* #[derive(PartialEq, Eq)] on NewLicense: == compares id, name and
\* copyleft_strength
NewLicense_eq(a, b) ==
  /\ a.id = b.id
  /\ a.name = b.name
  /\ a.copyleft_strength = b.copyleft_strength

\* the exact-match table from category label to NewCopyleftStrength
category_to_strength(category) ==
  CASE category = "Copyleft" -> "Copyleft"
    [] category = "Copyleft Limited" -> "CopyleftLimited"
    [] category = "Permissive" -> "Permissive"
    [] category = "Commercial" -> "Commercial"
    [] category = "Proprietary Free" -> "ProprietaryFree"
    [] category = "Public Domain" -> "PublicDomain"
    [] category = "Free Restricted" -> "FreeRestricted"
    [] category = "Source-available" -> "SourceAvailable"
    [] category = "Unstated License" -> "UnstatedLicense"
    [] category = "Patent License" -> "PatentLicense"
    [] OTHER -> "UnstatedLicense"

\* HashMap::insert
HashMapInsert(map, key, value) ==
  [k \in (DOMAIN map) \cup {key} |-> IF k = key THEN value ELSE map[k]]

RECURSIVE InsertLicenses(_, _, _)
InsertLicenses(licenses, i, license_db_acc) ==
  IF i > Len(licenses) THEN license_db_acc
  ELSE LET license == licenses[i]
           new_license ==
             NewLicense(license.license_key,
                        IF license.spdx_license_key # None
                        THEN license.spdx_license_key[1]
                        ELSE license.license_key,
                        category_to_strength(license.category))
       IN InsertLicenses(licenses, i + 1,
            HashMapInsert(license_db_acc, license.license_key, new_license))

\* index_json: [readable, licenses]; an unreadable or malformed file is Err,
\* which LicenseExpressionParser::new turns into the empty map
load_licenses_from_json(index_json) ==
  IF index_json.readable
  THEN [ok |-> TRUE, map |-> InsertLicenses(index_json.licenses, 1, <<>>)]
  ELSE [ok |-> FALSE, map |-> <<>>]

LicenseExpressionParser_new(index_json) ==
  LET loaded == load_licenses_from_json(index_json)
  IN IF loaded.ok THEN loaded.map ELSE <<>>

(***************************************************************************)
(* models.rs: SpdxExpr                                                     *)
(***************************************************************************)
License(id) == [kind |-> "License", id |-> id]

And(left, right) == [kind |-> "And", left |-> left, right |-> right]

Or(left, right) == [kind |-> "Or", left |-> left, right |-> right]

With(expr, exception) == [kind |-> "With", left |-> expr, exception |-> exception]

(***************************************************************************)
(* license_expression_parser.rs: tokenize                                  *)
(***************************************************************************)
Ok(value) == [ok |-> TRUE, value |-> value, error |-> ""]

Err(error) == [ok |-> FALSE, value |-> <<>>, error |-> error]

\* a bug the flush could have: current_token is pushed also when it is empty
FlushToken_Always(tokens, current_token) == Append(tokens, current_token)

\* push current_token when it is not empty (lines 31-34, 39-42, 47-50, 58-60)
FlushToken(tokens, current_token) ==
  IF current_token # <<>> THEN Append(tokens, current_token) ELSE tokens

\* one iteration of the loop over expression.chars()
TokenizeChar(st, ch) ==
  CASE ch = "(" ->
         [tokens |-> Append(FlushToken(st.tokens, st.current_token), <<ch>>),
          current_token |-> <<>>,
          paren_depth |-> st.paren_depth + 1]
    [] ch = ")" ->
         [tokens |-> Append(FlushToken(st.tokens, st.current_token), <<ch>>),
          current_token |-> <<>>,
          paren_depth |-> st.paren_depth - 1]
    [] ch \in {" ", "\t", "\n"} ->
         [tokens |-> FlushToken(st.tokens, st.current_token),
          current_token |-> <<>>,
          paren_depth |-> st.paren_depth]
    [] OTHER ->
         [tokens |-> st.tokens,
          current_token |-> Append(st.current_token, ch),
          paren_depth |-> st.paren_depth]

\* the loop "for ch in expression.chars()" over text[lo..hi], entered in
\* state st: the iterations lo..mid, then the iterations mid+1..hi.  Halving
\* the range and testing the state reached at mid keep the evaluation of a
\* long text shallow; the result is that of the iterations taken in order.
RECURSIVE TokenizeLoop(_, _, _, _)
TokenizeLoop(text, lo, hi, st) ==
  IF lo > hi THEN st
  ELSE IF lo = hi THEN TokenizeChar(st, text[lo])
  ELSE LET mid == (lo + hi) \div 2
           at_mid == TokenizeLoop(text, lo, mid, st)
       IN IF at_mid.paren_depth \in Int
          THEN TokenizeLoop(text, mid + 1, hi, at_mid)
          ELSE at_mid

\* a bug tokenize could have: only an unclosed "(" is reported
tokenize_UnclosedOnly(text) ==
  Let(TokenizeLoop(text, 1, Len(text),
        [tokens |-> <<>>, current_token |-> <<>>, paren_depth |-> 0]),
      LAMBDA st :
        IF st.paren_depth > 0
        THEN Err("Mismatched parentheses")
        ELSE Ok(FlushToken(st.tokens, st.current_token)))

tokenize(text) ==
  Let(TokenizeLoop(text, 1, Len(text),
        [tokens |-> <<>>, current_token |-> <<>>, paren_depth |-> 0]),
      LAMBDA st :
        IF st.paren_depth # 0
        THEN Err("Mismatched parentheses")
        ELSE Ok(FlushToken(st.tokens, st.current_token)))

(***************************************************************************)
(* license_expression_parser.rs: the recursive-descent parser.  pos is the *)
(* 0-based index of the next token, so tokens[*pos] is tokens[pos + 1].    *)
(***************************************************************************)
ParseOk(expr, pos) == [ok |-> TRUE, expr |-> expr, pos |-> pos, error |-> ""]

ParseErr(error, pos) == [ok |-> FALSE, expr |-> <<>>, pos |-> pos, error |-> error]

\* a bug the keyword test could have: the token is compared as written
IsKeyword_ExactCase(tokens, pos, keyword) ==
  pos < Len(tokens) /\ tokens[pos + 1] = keyword

IsKeyword(tokens, pos, keyword) ==
  pos < Len(tokens) /\ to_uppercase(tokens[pos + 1]) = keyword

RECURSIVE parse_or_expression(_, _)
RECURSIVE OrLoop(_, _, _)
RECURSIVE parse_and_expression(_, _)
RECURSIVE AndLoop(_, _, _)
RECURSIVE parse_with_expression(_, _)
RECURSIVE WithLoop(_, _, _)
RECURSIVE parse_primary(_, _)

\* a bug parse_primary could have: between parentheses it enters the AND
\* tier, so a parenthesized OR is not read
parse_primary_AndTierInParentheses(tokens, pos) ==
  IF pos >= Len(tokens) THEN ParseErr("Unexpected end of expression", pos)
  ELSE IF tokens[pos + 1] = Str_LParen
       THEN Let(parse_and_expression(tokens, pos + 1), LAMBDA inner :
              IF ~inner.ok THEN inner
              ELSE IF \/ inner.pos >= Len(tokens)
                      \/ tokens[inner.pos + 1] # Str_RParen
                   THEN ParseErr("Expected closing parenthesis", inner.pos)
                   ELSE ParseOk(inner.expr, inner.pos + 1))
       ELSE ParseOk(License(tokens[pos + 1]), pos + 1)

\* a bug parse_primary could have: the closing parenthesis is tested and
\* not consumed
parse_primary_KeepsClosing(tokens, pos) ==
  IF pos >= Len(tokens) THEN ParseErr("Unexpected end of expression", pos)
  ELSE IF tokens[pos + 1] = Str_LParen
       THEN Let(parse_or_expression(tokens, pos + 1), LAMBDA inner :
              IF ~inner.ok THEN inner
              ELSE IF \/ inner.pos >= Len(tokens)
                      \/ tokens[inner.pos + 1] # Str_RParen
                   THEN ParseErr("Expected closing parenthesis", inner.pos)
                   ELSE ParseOk(inner.expr, inner.pos))
       ELSE ParseOk(License(tokens[pos + 1]), pos + 1)

parse_primary(tokens, pos) ==
  IF pos >= Len(tokens) THEN ParseErr("Unexpected end of expression", pos)
  ELSE IF tokens[pos + 1] = Str_LParen
       THEN Let(parse_or_expression(tokens, pos + 1), LAMBDA inner :
              IF ~inner.ok THEN inner
              ELSE IF \/ inner.pos >= Len(tokens)
                      \/ tokens[inner.pos + 1] # Str_RParen
                   THEN ParseErr("Expected closing parenthesis", inner.pos)
                   ELSE ParseOk(inner.expr, inner.pos + 1))
       ELSE ParseOk(License(tokens[pos + 1]), pos + 1)

\* a bug the WITH tier could have: a missing exception is reported as the
\* end of the expression
WithLoop_UnexpectedEnd(tokens, left, pos) ==
  IF IsKeyword(tokens, pos, Str_WITH)
  THEN IF pos + 1 >= Len(tokens)
       THEN ParseErr("Unexpected end of expression", pos + 1)
       ELSE WithLoop(tokens, With(left, tokens[pos + 2]), pos + 2)
  ELSE ParseOk(left, pos)

WithLoop(tokens, left, pos) ==
  IF IsKeyword(tokens, pos, Str_WITH)
  THEN IF pos + 1 >= Len(tokens)
       THEN ParseErr("Expected exception after WITH", pos + 1)
       ELSE WithLoop(tokens, With(left, tokens[pos + 2]), pos + 2)
  ELSE ParseOk(left, pos)

parse_with_expression(tokens, pos) ==
  Let(parse_primary(tokens, pos), LAMBDA first :
    IF ~first.ok THEN first ELSE WithLoop(tokens, first.expr, first.pos))

\* a bug the AND tier could have: its right operand is a primary, so WITH
\* no longer binds tighter than AND
AndLoop_PrimaryOperand(tokens, left, pos) ==
  IF IsKeyword(tokens, pos, Str_AND)
  THEN Let(parse_primary(tokens, pos + 1), LAMBDA right :
         IF ~right.ok THEN right
         ELSE AndLoop(tokens, And(left, right.expr), right.pos))
  ELSE ParseOk(left, pos)

AndLoop(tokens, left, pos) ==
  IF IsKeyword(tokens, pos, Str_AND)
  THEN Let(parse_with_expression(tokens, pos + 1), LAMBDA right :
         IF ~right.ok THEN right
         ELSE AndLoop(tokens, And(left, right.expr), right.pos))
  ELSE ParseOk(left, pos)

parse_and_expression(tokens, pos) ==
  Let(parse_with_expression(tokens, pos), LAMBDA first :
    IF ~first.ok THEN first ELSE AndLoop(tokens, first.expr, first.pos))

\* a bug the OR tier could have: the rest of the chain is read as the right
\* operand, which nests the chain to the right
OrLoop_RightNested(tokens, left, pos) ==
  IF IsKeyword(tokens, pos, Str_OR)
  THEN Let(parse_or_expression(tokens, pos + 1), LAMBDA right :
         IF ~right.ok THEN right
         ELSE ParseOk(Or(left, right.expr), right.pos))
  ELSE ParseOk(left, pos)

OrLoop(tokens, left, pos) ==
  IF IsKeyword(tokens, pos, Str_OR)
  THEN Let(parse_and_expression(tokens, pos + 1), LAMBDA right :
         IF ~right.ok THEN right
         ELSE OrLoop(tokens, Or(left, right.expr), right.pos))
  ELSE ParseOk(left, pos)

parse_or_expression(tokens, pos) ==
  Let(parse_and_expression(tokens, pos), LAMBDA first :
    IF ~first.ok THEN first ELSE OrLoop(tokens, first.expr, first.pos))

\* a bug parse could have: tokens left after the expression are an error
parse_RejectsTrailing(text) ==
  Let(tokenize(text), LAMBDA tokens :
    IF ~tokens.ok THEN Err(tokens.error)
    ELSE Let(parse_or_expression(tokens.value, 0), LAMBDA r :
           IF ~r.ok THEN Err(r.error)
           ELSE IF r.pos < Len(tokens.value) THEN Err("Unexpected token")
           ELSE Ok(r.expr)))

\* parse: Result<SpdxExpr, String>
parse(text) ==
  Let(tokenize(text), LAMBDA tokens :
    IF ~tokens.ok THEN Err(tokens.error)
    ELSE Let(parse_or_expression(tokens.value, 0), LAMBDA r :
           IF r.ok THEN Ok(r.expr) ELSE Err(r.error)))

(***************************************************************************)
(* license_expression_parser.rs: the compatibility relation                *)
(***************************************************************************)
\* the families table: each entry is the member list of one family
LicenseFamilies ==
  << <<Str_MIT, Str_Expat, Str_X11>>,
     <<Str_BSD_2_Clause, Str_BSD_3_Clause, Str_BSD_4_Clause>>,
     <<Str_Apache_1_1, Str_Apache_2_0>>,
     <<Str_GPL_2_0, Str_GPL_3_0, Str_GPL_2_0_only, Str_GPL_3_0_only>>,
     <<Str_LGPL_2_0, Str_LGPL_2_1, Str_LGPL_3_0, Str_LGPL_2_1_only,
       Str_LGPL_3_0_only>> >>

same_license_family(id1, id2) ==
  \E f \in DOMAIN LicenseFamilies :
    /\ \E m \in DOMAIN LicenseFamilies[f] : contains(id1, LicenseFamilies[f][m])
    /\ \E m \in DOMAIN LicenseFamilies[f] : contains(id2, LicenseFamilies[f][m])

\* a match expression: arms is the sequence of <<pattern matches, value>> in
\* source order, and the first arm whose pattern matches gives the value
FirstMatch(arms) ==
  arms[CHOOSE i \in DOMAIN arms :
         arms[i][1] /\ \A j \in 1..(i - 1) : ~arms[j][1]][2]

\* a bug the default arm could have: the bound is 6, which admits
\* CopyleftLimited
DefaultCompatibility_UpToSix(a, b) ==
  /\ new_copyleft_strength_order(a.copyleft_strength) <= 6
  /\ new_copyleft_strength_order(b.copyleft_strength) <= 6

\* the default arm of check_specific_compatibility: judge by the risk order
DefaultCompatibility(a, b) ==
  /\ new_copyleft_strength_order(a.copyleft_strength) <= 5
  /\ new_copyleft_strength_order(b.copyleft_strength) <= 5

\* a bug check_specific_compatibility could have: the arm
\* (id, "GPL-2.0-only") is missing
check_specific_compatibility_OneDirection(a, b) ==
  FirstMatch(<<
    <<a.id = Str_GPL_2_0_only /\ contains(b.id, Str_GPL_3_0), FALSE>>,
    <<a.id = Str_GPL_2_0_or_later /\ contains(b.id, Str_GPL_3_0), TRUE>>,
    <<b.id = Str_GPL_2_0_or_later /\ contains(a.id, Str_GPL_3_0), TRUE>>,
    <<contains(a.id, Str_LGPL_3_0) /\ contains(b.id, Str_GPL_3_0), TRUE>>,
    <<contains(a.id, Str_GPL_3_0) /\ contains(b.id, Str_LGPL_3_0), TRUE>>,
    <<a.id = Str_LGPL_2_1_only /\ b.id = Str_LGPL_2_1_or_later, TRUE>>,
    <<a.id = Str_LGPL_2_1_or_later /\ b.id = Str_LGPL_2_1_only, TRUE>>,
    <<a.id = Str_LGPL_3_0_only /\ b.id = Str_LGPL_3_0_or_later, TRUE>>,
    <<a.id = Str_LGPL_3_0_or_later /\ b.id = Str_LGPL_3_0_only, TRUE>>,
    <<\/ a.id = Str_MIT /\ b.id = Str_LGPL_2_1
      \/ a.id = Str_LGPL_2_1 /\ b.id = Str_MIT, TRUE>>,
    <<\/ a.id = Str_MIT /\ b.id = Str_LGPL_3_0
      \/ a.id = Str_LGPL_3_0 /\ b.id = Str_MIT, TRUE>>,
    <<\/ a.id = Str_Apache_2_0 /\ b.id = Str_LGPL_3_0
      \/ a.id = Str_LGPL_3_0 /\ b.id = Str_Apache_2_0, TRUE>>,
    <<a.id = Str_CC0_1_0 \/ b.id = Str_CC0_1_0, TRUE>>,
    <<a.id = Str_Unlicense \/ b.id = Str_Unlicense, TRUE>>,
    <<same_license_family(a.id, b.id), TRUE>>,
    <<TRUE, DefaultCompatibility(a, b)>> >>)

\* the match on (a.id, b.id)
check_specific_compatibility(a, b) ==
  FirstMatch(<<
    <<a.id = Str_GPL_2_0_only /\ contains(b.id, Str_GPL_3_0), FALSE>>,
    <<b.id = Str_GPL_2_0_only /\ contains(a.id, Str_GPL_3_0), FALSE>>,
    <<a.id = Str_GPL_2_0_or_later /\ contains(b.id, Str_GPL_3_0), TRUE>>,
    <<b.id = Str_GPL_2_0_or_later /\ contains(a.id, Str_GPL_3_0), TRUE>>,
    <<contains(a.id, Str_LGPL_3_0) /\ contains(b.id, Str_GPL_3_0), TRUE>>,
    <<contains(a.id, Str_GPL_3_0) /\ contains(b.id, Str_LGPL_3_0), TRUE>>,
    <<a.id = Str_LGPL_2_1_only /\ b.id = Str_LGPL_2_1_or_later, TRUE>>,
    <<a.id = Str_LGPL_2_1_or_later /\ b.id = Str_LGPL_2_1_only, TRUE>>,
    <<a.id = Str_LGPL_3_0_only /\ b.id = Str_LGPL_3_0_or_later, TRUE>>,
    <<a.id = Str_LGPL_3_0_or_later /\ b.id = Str_LGPL_3_0_only, TRUE>>,
    <<\/ a.id = Str_MIT /\ b.id = Str_LGPL_2_1
      \/ a.id = Str_LGPL_2_1 /\ b.id = Str_MIT, TRUE>>,
    <<\/ a.id = Str_MIT /\ b.id = Str_LGPL_3_0
      \/ a.id = Str_LGPL_3_0 /\ b.id = Str_MIT, TRUE>>,
    <<\/ a.id = Str_Apache_2_0 /\ b.id = Str_LGPL_3_0
      \/ a.id = Str_LGPL_3_0 /\ b.id = Str_Apache_2_0, TRUE>>,
    <<a.id = Str_CC0_1_0 \/ b.id = Str_CC0_1_0, TRUE>>,
    <<a.id = Str_Unlicense \/ b.id = Str_Unlicense, TRUE>>,
    <<same_license_family(a.id, b.id), TRUE>>,
    <<TRUE, DefaultCompatibility(a, b)>> >>)

\* a bug are_licenses_compatible could have: the Commercial and
\* UnstatedLicense arms stand before the compatible arms
are_licenses_compatible_RiskFirst(a, b) ==
  LET sa == a.copyleft_strength
      sb == b.copyleft_strength
      arm == FirstMatch(<<
        <<a.id = b.id, "true">>,
        <<sa = "Commercial" \/ sb = "Commercial", "false">>,
        <<sa = "UnstatedLicense" \/ sb = "UnstatedLicense", "false">>,
        <<sa = "PublicDomain" \/ sb = "PublicDomain", "true">>,
        <<sa = "Permissive" \/ sb = "Permissive", "true">>,
        <<sa = "CLA" /\ sb = "CLA", "true">>,
        <<sa = "CLA" \/ sb = "CLA", "true">>,
        <<sa = "PatentLicense" \/ sb = "PatentLicense", "true">>,
        <<sa = "ProprietaryFree" /\ sb = "ProprietaryFree", "true">>,
        <<sa = "FreeRestricted" /\ sb = "FreeRestricted", "true">>,
        <<\/ sa = "CopyleftLimited" /\ sb = "Copyleft"
          \/ sa = "Copyleft" /\ sb = "CopyleftLimited", "check_specific">>,
        <<sa = "Copyleft" /\ sb = "Copyleft", "false">>,
        <<\/ sa = "Copyleft" /\ sb = "SourceAvailable"
          \/ sa = "SourceAvailable" /\ sb = "Copyleft", "false">>,
        <<TRUE, "check_specific">> >>)
  IN IF arm = "check_specific"
     THEN check_specific_compatibility(a, b)
     ELSE arm = "true"

\* the match on (a.copyleft_strength, b.copyleft_strength); an arm gives
\* true, false, or the call of check_specific_compatibility
are_licenses_compatible(a, b) ==
  LET sa == a.copyleft_strength
      sb == b.copyleft_strength
      arm == FirstMatch(<<
        <<a.id = b.id, "true">>,
        <<sa = "PublicDomain" \/ sb = "PublicDomain", "true">>,
        <<sa = "Permissive" \/ sb = "Permissive", "true">>,
        <<sa = "CLA" /\ sb = "CLA", "true">>,
        <<sa = "CLA" \/ sb = "CLA", "true">>,
        <<sa = "PatentLicense" \/ sb = "PatentLicense", "true">>,
        <<sa = "ProprietaryFree" /\ sb = "ProprietaryFree", "true">>,
        <<sa = "FreeRestricted" /\ sb = "FreeRestricted", "true">>,
        <<\/ sa = "CopyleftLimited" /\ sb = "Copyleft"
          \/ sa = "Copyleft" /\ sb = "CopyleftLimited", "check_specific">>,
        <<sa = "Copyleft" /\ sb = "Copyleft", "false">>,
        <<\/ sa = "Copyleft" /\ sb = "SourceAvailable"
          \/ sa = "SourceAvailable" /\ sb = "Copyleft", "false">>,
        <<sa = "Commercial" \/ sb = "Commercial", "false">>,
        <<sa = "UnstatedLicense" \/ sb = "UnstatedLicense", "false">>,
        <<TRUE, "check_specific">> >>)
  IN IF arm = "check_specific"
     THEN check_specific_compatibility(a, b)
     ELSE arm = "true"

\* a bug choose_stronger_license could have: > for >=, so a tie goes right
choose_stronger_license_RightOnTie(a, b) ==
  IF new_copyleft_strength_order(a.copyleft_strength)
       > new_copyleft_strength_order(b.copyleft_strength)
  THEN a
  ELSE b

\* a bug choose_stronger_license could have: the comparison is <=, which
\* keeps the weaker record
choose_stronger_license_Weaker(a, b) ==
  IF new_copyleft_strength_order(a.copyleft_strength)
       <= new_copyleft_strength_order(b.copyleft_strength)
  THEN a ELSE b

choose_stronger_license(a, b) ==
  IF new_copyleft_strength_order(a.copyleft_strength)
       >= new_copyleft_strength_order(b.copyleft_strength)
  THEN a
  ELSE b

(***************************************************************************)
(* license_expression_parser.rs: the evaluator                             *)
(***************************************************************************)
\* if !compatible.iter().any(|l| l.id == stronger.id) { compatible.push(stronger) }
PushUnlessPresent(compatible, stronger) ==
  IF \E k \in DOMAIN compatible : compatible[k].id = stronger.id
  THEN compatible
  ELSE Append(compatible, stronger)

\* a bug the loops could have: the fallback pair of loops tests
\* compatibility too
RECURSIVE PairLoop_FallbackFiltered(_, _, _, _, _, _)
PairLoop_FallbackFiltered(left, right, i, j, compatible, filtered) ==
  IF i > Len(left) THEN compatible
  ELSE IF j > Len(right)
       THEN PairLoop_FallbackFiltered(left, right, i + 1, 1, compatible, filtered)
  ELSE PairLoop_FallbackFiltered(left, right, i, j + 1,
         IF are_licenses_compatible(left[i], right[j])
         THEN PushUnlessPresent(compatible,
                choose_stronger_license(left[i], right[j]))
         ELSE compatible,
         filtered)

\* the nested loops over left and right (i, j are the 1-based loop indices);
\* filtered = TRUE is the first pair of loops, FALSE the fallback pair
RECURSIVE PairLoop(_, _, _, _, _, _)
PairLoop(left, right, i, j, compatible, filtered) ==
  IF i > Len(left) THEN compatible
  ELSE IF j > Len(right) THEN PairLoop(left, right, i + 1, 1, compatible, filtered)
  ELSE PairLoop(left, right, i, j + 1,
         IF filtered => are_licenses_compatible(left[i], right[j])
         THEN PushUnlessPresent(compatible,
                choose_stronger_license(left[i], right[j]))
         ELSE compatible,
         filtered)

\* a bug find_compatible_licenses could have: no fallback pass
find_compatible_licenses_NoFallback(left, right) ==
  PairLoop(left, right, 1, 1, <<>>, TRUE)

find_compatible_licenses(left, right) ==
  Let(PairLoop(left, right, 1, 1, <<>>, TRUE), LAMBDA compatible :
    IF compatible = <<>>
    THEN PairLoop(left, right, 1, 1, <<>>, FALSE)
    ELSE compatible)

\* a bug extend could have: a record whose id is already present is dropped
RECURSIVE extend_Dedup(_, _)
extend_Dedup(result, other) ==
  IF other = <<>> THEN result
  ELSE extend_Dedup(PushUnlessPresent(result, other[1]), Tail(other))

\* Vec::extend
extend(result, other) == result \o other

\* a bug evaluate_expression could have: the record made for an id the
\* registry does not hold carries the lowercased id
RECURSIVE evaluate_expression_LowercaseSynthetic(_, _)
evaluate_expression_LowercaseSynthetic(db, expr) ==
  CASE expr.kind = "License" ->
         IF to_lowercase(expr.id) \in DOMAIN db
         THEN <<db[to_lowercase(expr.id)]>>
         ELSE <<NewLicense(to_lowercase(expr.id),
                           Str_Unknown_License \o expr.id, "UnstatedLicense")>>
    [] expr.kind = "Or" ->
         extend(evaluate_expression_LowercaseSynthetic(db, expr.left),
                evaluate_expression_LowercaseSynthetic(db, expr.right))
    [] expr.kind = "And" ->
         find_compatible_licenses(
           evaluate_expression_LowercaseSynthetic(db, expr.left),
           evaluate_expression_LowercaseSynthetic(db, expr.right))
    [] expr.kind = "With" ->
         evaluate_expression_LowercaseSynthetic(db, expr.left)

\* a bug evaluate_expression could have: an id the registry does not hold
\* gives no record
RECURSIVE evaluate_expression_MissIsEmpty(_, _)
evaluate_expression_MissIsEmpty(db, expr) ==
  CASE expr.kind = "License" ->
         IF to_lowercase(expr.id) \in DOMAIN db
         THEN <<db[to_lowercase(expr.id)]>>
         ELSE <<>>
    [] expr.kind = "Or" ->
         extend(evaluate_expression_MissIsEmpty(db, expr.left),
                evaluate_expression_MissIsEmpty(db, expr.right))
    [] expr.kind = "And" ->
         find_compatible_licenses(evaluate_expression_MissIsEmpty(db, expr.left),
                                  evaluate_expression_MissIsEmpty(db, expr.right))
    [] expr.kind = "With" ->
         evaluate_expression_MissIsEmpty(db, expr.left)

RECURSIVE evaluate_expression(_, _)
evaluate_expression(db, expr) ==
  CASE expr.kind = "License" ->
         LET lowercase_id == to_lowercase(expr.id)
         IN IF lowercase_id \in DOMAIN db
            THEN <<db[lowercase_id]>>
            ELSE <<NewLicense(expr.id, Str_Unknown_License \o expr.id,
                              "UnstatedLicense")>>
    [] expr.kind = "Or" ->
         extend(evaluate_expression(db, expr.left),
                evaluate_expression(db, expr.right))
    [] expr.kind = "And" ->
         find_compatible_licenses(evaluate_expression(db, expr.left),
                                  evaluate_expression(db, expr.right))
    [] expr.kind = "With" ->
         evaluate_expression(db, expr.left)

(***************************************************************************)
(* license_expression_parser.rs: risk and recommendation                   *)
(***************************************************************************)
\* Iterator::max_by_key keeps the last of several maximal elements
RECURSIVE MaxByKey(_, _, _)
MaxByKey(licenses, i, best) ==
  IF i > Len(licenses) THEN best
  ELSE MaxByKey(licenses, i + 1,
         IF new_copyleft_strength_order(licenses[i].copyleft_strength)
              >= new_copyleft_strength_order(best)
         THEN licenses[i].copyleft_strength
         ELSE best)

\* a bug find_strongest_copyleft could have: the category of the first
\* element is taken for the maximum
find_strongest_copyleft_First(licenses) ==
  IF licenses = <<>> THEN "PublicDomain" ELSE licenses[1].copyleft_strength

find_strongest_copyleft(licenses) ==
  IF licenses = <<>> THEN "PublicDomain"
  ELSE MaxByKey(licenses, 2, licenses[1].copyleft_strength)

\* a bug the sort could have: x goes before the elements whose key equals
\* its own, which reverses ties
RECURSIVE InsertByKey_BeforeEqual(_, _)
InsertByKey_BeforeEqual(sorted, x) ==
  IF sorted = <<>> THEN <<x>>
  ELSE IF new_copyleft_strength_order(sorted[Len(sorted)].copyleft_strength)
            < new_copyleft_strength_order(x.copyleft_strength)
       THEN Append(sorted, x)
       ELSE Append(InsertByKey_BeforeEqual(SubSeq(sorted, 1, Len(sorted) - 1), x),
                   sorted[Len(sorted)])

\* slice::sort_by_key is stable: x goes after every element whose key is <= its own
RECURSIVE InsertByKey(_, _)
InsertByKey(sorted, x) ==
  IF sorted = <<>> THEN <<x>>
  ELSE IF new_copyleft_strength_order(sorted[Len(sorted)].copyleft_strength)
            <= new_copyleft_strength_order(x.copyleft_strength)
       THEN Append(sorted, x)
       ELSE Append(InsertByKey(SubSeq(sorted, 1, Len(sorted) - 1), x),
                   sorted[Len(sorted)])

RECURSIVE SortByKey(_, _, _)
SortByKey(licenses, i, sorted) ==
  IF i > Len(licenses) THEN sorted
  ELSE SortByKey(licenses, i + 1, InsertByKey(sorted, licenses[i]))

\* a bug choose_recommended_license could have: the first of the sorted
\* sequence is skipped (nth(1) for next())
choose_recommended_license_SkipFirst(licenses) ==
  IF Len(licenses) <= 1 THEN None
  ELSE Some(SortByKey(licenses, 1, <<>>)[2])

choose_recommended_license(licenses) ==
  IF licenses = <<>> THEN None
  ELSE Some(SortByKey(licenses, 1, <<>>)[1])

\* the match on strongest in assess_risk_level
RiskOfStrength(strongest) ==
  CASE strongest \in {"PublicDomain", "Permissive"} -> "Low"
    [] strongest = "CopyleftLimited" -> "Medium"
    [] strongest = "Copyleft" -> "High"
    [] strongest = "UnstatedLicense" -> "Unknown"
    [] strongest = "CLA" -> "Low"
    [] strongest = "Commercial" -> "Critical"
    [] strongest = "FreeRestricted" -> "Medium"
    [] strongest = "PatentLicense" -> "Medium"
    [] strongest = "ProprietaryFree" -> "Medium"
    [] strongest = "SourceAvailable" -> "High"

\* a bug assess_risk_level could have: no test for the empty sequence
assess_risk_level_NoEmptyTest(strongest, licenses) ==
  RiskOfStrength(strongest)

assess_risk_level(strongest, licenses) ==
  IF licenses = <<>> THEN "Critical" ELSE RiskOfStrength(strongest)

\* a note is a format string and the text substituted into it
Note(text, arg) == [text |-> text, arg |-> arg]

NoteNoCompatible ==
  Note("No compatible licenses found - this is a licensing conflict!", <<>>)

GuidanceNotes(strength) ==
  CASE strength = "Copyleft" ->
         <<Note("Copyleft: All derivative works must use compatible licenses", <<>>),
           Note("Required: Provide complete source code upon distribution", <<>>),
           Note("Caution: Static linking may affect entire codebase", <<>>)>>
    [] strength = "CopyleftLimited" ->
         <<Note("CopyleftLimited: Only modifications to this component must be open-sourced", <<>>),
           Note("Dynamic linking generally acceptable", <<>>)>>
    [] strength \in {"Permissive", "PublicDomain"} ->
         <<Note("Permissive/PublicDomain: Minimal compliance requirements", <<>>),
           Note("Required: Include license notice and attribution", <<>>)>>
    [] strength = "CLA" ->
         <<Note("CLA: Contributor License Agreement required for contributions", <<>>),
           Note("Review: Ensure all contributors have signed appropriate CLA", <<>>)>>
    [] strength = "Commercial" ->
         <<Note("Commercial: Proprietary license with commercial terms", <<>>),
           Note("Review: Check license terms for usage restrictions and fees", <<>>),
           Note("Caution: May have redistribution limitations", <<>>)>>
    [] strength = "FreeRestricted" ->
         <<Note("Free Restricted: Permissive-style license with usage restrictions", <<>>),
           Note("Review: Check specific restrictions on usage or redistribution", <<>>)>>
    [] strength = "PatentLicense" ->
         <<Note("Patent License: Covers patent rights rather than software copyright", <<>>),
           Note("Review: Ensure patent license terms are compatible with software usage", <<>>)>>
    [] strength = "ProprietaryFree" ->
         <<Note("Proprietary Free: Free to use but with proprietary terms", <<>>),
           Note("Review: Check specific terms and conditions for usage", <<>>)>>
    [] strength = "SourceAvailable" ->
         <<Note("Source Available: Source code provided without full open-source compliance", <<>>),
           Note("Review: Check redistribution and modification rights", <<>>)>>
    [] strength = "UnstatedLicense" ->
         <<Note("Unknown license: Manual legal review required", <<>>)>>

\* [String]::join(", ")
RECURSIVE JoinComma(_)
JoinComma(strs) ==
  IF strs = <<>> THEN <<>>
  ELSE IF Len(strs) = 1 THEN strs[1]
  ELSE strs[1] \o <<",", " ">> \o JoinComma(Tail(strs))

\* a bug the alternatives could have: no filter, the recommended license is
\* listed with the others
RECURSIVE Alternatives_Unfiltered(_, _)
Alternatives_Unfiltered(licenses, recommended) ==
  IF licenses = <<>> THEN <<>>
  ELSE <<licenses[1].id>> \o Alternatives_Unfiltered(Tail(licenses), recommended)

\* licenses.iter().filter(|l| Some(*l) != recommended.as_ref()).map(|l| l.id)
\* NewLicense derives PartialEq, so the comparison is over all three fields
RECURSIVE Alternatives(_, _)
Alternatives(licenses, recommended) ==
  IF licenses = <<>> THEN <<>>
  ELSE (IF Some(licenses[1]) # recommended THEN <<licenses[1].id>> ELSE <<>>)
       \o Alternatives(Tail(licenses), recommended)

generate_compliance_notes(licenses, recommended) ==
  IF licenses = <<>> THEN <<NoteNoCompatible>>
  ELSE LET rec_notes ==
             IF recommended # None
             THEN <<Note("Recommended license choice: {}", recommended[1].id)>>
                  \o GuidanceNotes(recommended[1].copyleft_strength)
             ELSE <<>>
           alternatives == Alternatives(licenses, recommended)
       IN IF Len(licenses) > 1 /\ alternatives # <<>>
          THEN Append(rec_notes,
                 Note("Alternative licenses available: {}", JoinComma(alternatives)))
          ELSE rec_notes

ConflictComplete == "Complete licensing conflict - no compatible licenses found"

ConflictGpl == "GPL-2.0-only is incompatible with GPL-3.0+ licenses"

\* a bug find_conflicts could have: the empty sequence is not reported
find_conflicts_NoGeneric(licenses) ==
  LET has_gpl2_only == \E k \in DOMAIN licenses : licenses[k].id = Str_GPL_2_0_only
      has_gpl3 == \E k \in DOMAIN licenses : contains(licenses[k].id, Str_GPL_3_0)
  IN IF has_gpl2_only /\ has_gpl3 THEN <<ConflictGpl>> ELSE <<>>

\* a bug find_conflicts could have: the GPL-3.0 side is an exact comparison
find_conflicts_ExactGpl3(licenses) ==
  LET has_gpl2_only == \E k \in DOMAIN licenses : licenses[k].id = Str_GPL_2_0_only
      has_gpl3 == \E k \in DOMAIN licenses : licenses[k].id = Str_GPL_3_0
  IN (IF licenses = <<>> THEN <<ConflictComplete>> ELSE <<>>)
     \o (IF has_gpl2_only /\ has_gpl3 THEN <<ConflictGpl>> ELSE <<>>)

find_conflicts(licenses) ==
  LET has_gpl2_only == \E k \in DOMAIN licenses : licenses[k].id = Str_GPL_2_0_only
      has_gpl3 == \E k \in DOMAIN licenses : contains(licenses[k].id, Str_GPL_3_0)
  IN (IF licenses = <<>> THEN <<ConflictComplete>> ELSE <<>>)
     \o (IF has_gpl2_only /\ has_gpl3 THEN <<ConflictGpl>> ELSE <<>>)

\* analyze: a failed parse is logged and the analysis goes on with no tree
analyze(db, text) ==
  Let(parse(text), LAMBDA result :
  Let(IF result.ok THEN Some(result.value) ELSE None, LAMBDA parsed :
  Let(IF parsed # None THEN evaluate_expression(db, parsed[1]) ELSE <<>>,
      LAMBDA possible_licenses :
  Let(find_strongest_copyleft(possible_licenses), LAMBDA strongest_copyleft :
  Let(choose_recommended_license(possible_licenses), LAMBDA recommended_choice :
    [original_expression |-> text,
     parsed_expression |-> parsed,
     possible_licenses |-> possible_licenses,
     strongest_copyleft |-> strongest_copyleft,
     recommended_choice |-> recommended_choice,
     risk_level |-> assess_risk_level(strongest_copyleft, possible_licenses),
     compliance_notes |->
       generate_compliance_notes(possible_licenses, recommended_choice),
     conflicts |-> find_conflicts(possible_licenses)])))))

(***************************************************************************)
(* Inputs: the contents of index.json and the expression texts             *)
(***************************************************************************)
\* a bug analyze could have: the record made for an id the registry does not
\* hold is kept in the registry
RECURSIVE CacheUnknown(_, _)
CacheUnknown(db, expr) ==
  CASE expr.kind = "License" ->
         IF to_lowercase(expr.id) \in DOMAIN db THEN db
         ELSE HashMapInsert(db, to_lowercase(expr.id),
                NewLicense(expr.id, Str_Unknown_License \o expr.id,
                           "UnstatedLicense"))
    [] expr.kind = "With" -> CacheUnknown(db, expr.left)
    [] OTHER -> CacheUnknown(CacheUnknown(db, expr.left), expr.right)

analyze_license_db_CachesUnknown(db, text) ==
  IF parse(text).ok THEN CacheUnknown(db, parse(text).value) ELSE db

\* self.license_db after analyze(&self, ..): the parser is borrowed
\* immutably and holds no cell, so the map is the one the call started from
analyze_license_db(db, text) == db

Str_Acme == <<"A","c","m","e">>

\* one entry of index.json (license.rs: License), the fields the loader reads
Entry(license_key, category, spdx_license_key) ==
  [license_key |-> license_key, category |-> category,
   spdx_license_key |-> spdx_license_key]

IndexJsonFiles ==
  { \* no index.json, or one that does not deserialize
    [readable |-> FALSE, licenses |-> <<>>],
    \* keys in lower case, the common categories
    [readable |-> TRUE, licenses |->
      <<Entry(to_lowercase(Str_MIT), "Permissive", Some(Str_MIT)),
        Entry(to_lowercase(Str_GPL_2_0_only), "Copyleft", Some(Str_GPL_2_0_only)),
        Entry(to_lowercase(Str_GPL_3_0_only), "Copyleft", Some(Str_GPL_3_0_only)),
        Entry(to_lowercase(Str_Acme), "Commercial", None)>>],
    \* a key that is not lower case, a label the table does not know, a
    \* key that occurs twice
    [readable |-> TRUE, licenses |->
      <<Entry(Str_MIT, "Permissive", Some(Str_MIT)),
        Entry(to_lowercase(Str_GPL_2_0_only), "Copyleft Limited", None),
        Entry(to_lowercase(Str_GPL_3_0_only), "Source-available", None),
        Entry(to_lowercase(Str_Acme), "CLA", None),
        Entry(to_lowercase(Str_GPL_3_0_only), "Copyleft", None)>>],
    \* the low and middle categories
    [readable |-> TRUE, licenses |->
      <<Entry(to_lowercase(Str_MIT), "Public Domain", None),
        Entry(to_lowercase(Str_GPL_2_0_only), "Free Restricted", None),
        Entry(to_lowercase(Str_GPL_3_0_only), "Patent License", None),
        Entry(to_lowercase(Str_Acme), "Proprietary Free", None)>>],
    \* two licenses of one category
    [readable |-> TRUE, licenses |->
      <<Entry(to_lowercase(Str_MIT), "Permissive", Some(Str_MIT)),
        Entry(to_lowercase(Str_GPL_2_0_only), "Source-available", None),
        Entry(to_lowercase(Str_GPL_3_0_only), "Copyleft", None),
        Entry(to_lowercase(Str_Acme), "Permissive", None)>>] }

Registries == {LicenseExpressionParser_new(f) : f \in IndexJsonFiles}

MaxWords == 3

Vocabulary ==
  {Str_MIT, Str_GPL_2_0_only, Str_GPL_3_0_only, Str_Acme,
   Str_AND, Str_OR, Str_WITH, Str_LParen, Str_RParen}

RECURSIVE JoinSpace(_)
JoinSpace(words) ==
  IF words = <<>> THEN <<>>
  ELSE IF Len(words) = 1 THEN words[1]
  ELSE words[1] \o <<" ">> \o JoinSpace(Tail(words))

\* every text of at most MaxWords words separated by single spaces
WordTexts ==
  {JoinSpace(w) : w \in UNION {[1..n -> Vocabulary] : n \in 0..MaxWords}}

\* "(MIT OR GPL-2.0-only) AND GPL-3.0-only"
Text_ParenOrAnd ==
  <<"(">> \o Str_MIT \o <<" ">> \o Str_OR \o <<" ">> \o Str_GPL_2_0_only
  \o <<")", " ">> \o Str_AND \o <<" ">> \o Str_GPL_3_0_only

\* "MIT OR GPL-2.0-only AND GPL-3.0-only"
Text_OrAnd ==
  JoinSpace(<<Str_MIT, Str_OR, Str_GPL_2_0_only, Str_AND, Str_GPL_3_0_only>>)

\* "MIT AND GPL-2.0-only WITH Acme"
Text_AndWith ==
  JoinSpace(<<Str_MIT, Str_AND, Str_GPL_2_0_only, Str_WITH, Str_Acme>>)

\* "GPL-2.0-only AND GPL-3.0-only"
Text_Gpl2AndGpl3 == JoinSpace(<<Str_GPL_2_0_only, Str_AND, Str_GPL_3_0_only>>)

\* "(GPL-2.0 OR Apache-2.0) AND (GPL-2.0-only AND GPL-3.0-only)", main.rs
Text_Main ==
  <<"(">> \o Str_GPL_2_0 \o <<" ">> \o Str_OR \o <<" ">> \o Str_Apache_2_0
  \o <<")", " ">> \o Str_AND \o <<" ", "(">>
  \o Text_Gpl2AndGpl3 \o <<")">>

\* "(MIT OR Acme) AND (Acme OR MIT)"
Text_OrAndOr ==
  <<"(">> \o Str_MIT \o <<" ">> \o Str_OR \o <<" ">> \o Str_Acme
  \o <<")", " ">> \o Str_AND \o <<" ", "(">>
  \o Str_Acme \o <<" ">> \o Str_OR \o <<" ">> \o Str_MIT \o <<")">>

\* "MIT<tab>OR<newline> (Acme)": every separator, parentheses next to a word
Text_Separators ==
  Str_MIT \o <<"\t">> \o Str_OR \o <<"\n", " ", "(">> \o Str_Acme \o <<")">>

\* "MIT or Acme"
Text_LowerOr == JoinSpace(<<Str_MIT, to_lowercase(Str_OR), Str_Acme>>)

\* "MIT AND or"
Text_AndLeafOr == JoinSpace(<<Str_MIT, Str_AND, to_lowercase(Str_OR)>>)

\* "and And or wITH with"
Text_MixedCase ==
  JoinSpace(<<to_lowercase(Str_AND), <<"A", "n", "d">>, to_lowercase(Str_OR),
              <<"w", "I", "T", "H">>, to_lowercase(Str_WITH)>>)

\* "MIT OR Acme OR GPL-2.0-only"
Text_OrChain ==
  JoinSpace(<<Str_MIT, Str_OR, Str_Acme, Str_OR, Str_GPL_2_0_only>>)

\* "MIT AND Acme AND GPL-2.0-only"
Text_AndChain ==
  JoinSpace(<<Str_MIT, Str_AND, Str_Acme, Str_AND, Str_GPL_2_0_only>>)

\* "MIT WITH Acme WITH GPL-2.0-only"
Text_WithChain ==
  JoinSpace(<<Str_MIT, Str_WITH, Str_Acme, Str_WITH, Str_GPL_2_0_only>>)

\* chains of one operator
ChainTexts == {Text_OrChain, Text_AndChain, Text_WithChain}

\* "( MIT Acme )"
Text_GroupOfTwo == JoinSpace(<<Str_LParen, Str_MIT, Str_Acme, Str_RParen>>)

\* "MIT WITH Acme GPL-2.0-only"
Text_WithThenToken ==
  JoinSpace(<<Str_MIT, Str_WITH, Str_Acme, Str_GPL_2_0_only>>)

\* an expression followed by a token that does not continue it
RemainderTexts == {Text_GroupOfTwo, Text_WithThenToken}

\* "MIT OR mit"
Text_TwoCases == JoinSpace(<<Str_MIT, Str_OR, to_lowercase(Str_MIT)>>)

\* one id in two letter cases
CaseTexts == {Text_TwoCases}

\* keywords in lower and mixed case, in operator and in operand position
KeywordTexts == {Text_LowerOr, Text_AndLeafOr, Text_MixedCase}

ExampleTexts ==
  {Text_ParenOrAnd, Text_OrAnd, Text_AndWith, Text_Main, Text_OrAndOr,
   Text_Separators}

Inputs ==
  WordTexts \cup ExampleTexts \cup KeywordTexts \cup ChainTexts \cup CaseTexts
  \cup RemainderTexts

(***************************************************************************)
(* The program: a parser is constructed over the registry, then analyze    *)
(* is called on the expression                                             *)
(***************************************************************************)
Init ==
  /\ license_db \in Registries
  /\ expression \in Inputs
  /\ analysis = None
  /\ lic_a = None
  /\ lic_b = None
  /\ compat = None
  /\ calls = <<>>

Analyze ==
  /\ analysis = None
  /\ analysis' = Some(analyze(license_db, expression))
  /\ UNCHANGED <<license_db, expression, lic_a, lic_b, compat, calls>>

Next == Analyze

Spec == Init /\ [][Next]_vars

(***************************************************************************)
(* The compatibility relation on its own: are_licenses_compatible applied  *)
(* to a pair of records drawn from ids that meet every arm of              *)
(* check_specific_compatibility, in every category                         *)
(***************************************************************************)
CompatIds ==
  {Str_GPL_2_0_only, Str_GPL_3_0_only, Str_GPL_2_0_or_later, Str_GPL_3_0,
   Str_LGPL_2_1, Str_LGPL_3_0, Str_LGPL_2_1_only, Str_LGPL_2_1_or_later,
   Str_LGPL_3_0_only, Str_LGPL_3_0_or_later, Str_MIT, Str_Expat,
   Str_Apache_2_0, Str_BSD_2_Clause, Str_BSD_3_Clause, Str_CC0_1_0,
   Str_Unlicense, Str_Acme, to_lowercase(Str_MIT),
   to_lowercase(Str_GPL_3_0_only)}

CompatRecords ==
  {NewLicense(id, id, strength) : id \in CompatIds, strength \in NewCopyleftStrength}

InitCompat ==
  /\ license_db = <<>>
  /\ expression = <<>>
  /\ analysis = None
  /\ lic_a \in {Some(r) : r \in CompatRecords}
  /\ lic_b \in {Some(r) : r \in CompatRecords}
  /\ compat = None
  /\ calls = <<>>

CheckCompatible ==
  /\ compat = None
  /\ lic_a # None
  /\ lic_b # None
  /\ compat' = Some(are_licenses_compatible(lic_a[1], lic_b[1]))
  /\ UNCHANGED <<license_db, expression, analysis, lic_a, lic_b, calls>>

NextCompat == CheckCompatible

SpecCompat == InitCompat /\ [][NextCompat]_vars

(***************************************************************************)
(* One parser called several times: every call of analyze is made on the   *)
(* registry the preceding call left behind, and calls keeps, for each      *)
(* call, the registry it started from, its text and its result             *)
(***************************************************************************)
MaxCalls == 3

CallTexts ==
  {Str_MIT, to_lowercase(Str_MIT), Str_Acme, Text_OrAnd, Text_Main,
   Text_OrAndOr, Text_AndWith, Str_RParen \o Str_LParen}

InitCalls ==
  /\ license_db \in Registries
  /\ expression = <<>>
  /\ analysis = None
  /\ lic_a = None
  /\ lic_b = None
  /\ compat = None
  /\ calls = <<>>

AnalyzeAgain ==
  /\ Len(calls) < MaxCalls
  /\ \E text \in CallTexts :
       /\ expression' = text
       /\ analysis' = Some(analyze(license_db, text))
       /\ license_db' = analyze_license_db(license_db, text)
       /\ calls' = Append(calls, [license_db |-> license_db,
                                  expression |-> text,
                                  analysis |-> analyze(license_db, text)])
  /\ UNCHANGED <<lic_a, lic_b, compat>>

NextCalls == AnalyzeAgain

SpecCalls == InitCalls /\ [][NextCalls]_vars

(***************************************************************************)
(* Properties of analyze, stated on the state after it has returned        *)
(***************************************************************************)
Returned == analysis # None

Result == analysis[1]

Ids(licenses) == [k \in 1..Len(licenses) |-> licenses[k].id]

\* the nodes of an expression tree
RECURSIVE SubExprs(_)
SubExprs(expr) ==
  IF expr.kind = "License" THEN {expr}
  ELSE IF expr.kind = "With" THEN {expr} \cup SubExprs(expr.left)
  ELSE {expr} \cup SubExprs(expr.left) \cup SubExprs(expr.right)

Evaluate(expr) == evaluate_expression(license_db, expr)

\* C1: for "GPL-2.0-only AND GPL-3.0-only", and for any And of the leaf
\* GPL-2.0-only with a leaf whose id contains GPL-3.0 whose records have the
\* same rank and are incompatible, the candidates are [GPL-2.0-only], the
\* recommendation is GPL-2.0-only and conflicts holds the GPL-2.0-only /
\* GPL-3.0 message.
C1_Gpl2AndGpl3ReportsConflict ==
  (/\ Returned
   /\ Result.parsed_expression # None
   /\ LET tree == Result.parsed_expression[1]
      IN /\ tree.kind = "And"
         /\ tree.left = License(Str_GPL_2_0_only)
         /\ tree.right.kind = "License"
         /\ contains(tree.right.id, Str_GPL_3_0)
         /\ LET a == Evaluate(tree.left)[1]
                b == Evaluate(tree.right)[1]
            IN /\ new_copyleft_strength_order(a.copyleft_strength)
                    = new_copyleft_strength_order(b.copyleft_strength)
               /\ ~are_licenses_compatible(a, b))
  => /\ Ids(Result.possible_licenses) = <<Str_GPL_2_0_only>>
     /\ Result.recommended_choice # None
     /\ Result.recommended_choice[1].id = Str_GPL_2_0_only
     /\ ConflictGpl \in Range(Result.conflicts)

\* C2 as stated: risk_level is Critical if and only if the candidate
\* sequence is empty, whatever strongest_category is.
C2_CriticalIffEmpty ==
  Returned =>
    (Result.risk_level = "Critical" <=> Result.possible_licenses = <<>>)

\* C2 as amended: risk_level is Critical if and only if the candidate
\* sequence is empty or strongest_category is Commercial; an empty candidate
\* sequence gives Critical although its strongest_category is PublicDomain.
C2_CriticalIffEmptyOrCommercial ==
  Returned =>
    /\ Result.risk_level = "Critical"
         <=> (\/ Result.possible_licenses = <<>>
              \/ Result.strongest_copyleft = "Commercial")
    /\ Result.possible_licenses = <<>> =>
         Result.strongest_copyleft = "PublicDomain"

\* C2's case: a non-empty candidate sequence rated Critical
C2_Witness ==
  /\ Returned
  /\ Result.possible_licenses # <<>>
  /\ Result.strongest_copyleft = "Commercial"
  /\ Result.risk_level = "Critical"

\* C3: recommended is None if and only if the candidate sequence is empty,
\* and a recommended license is an element of the candidate sequence.
C3_RecommendedIffCandidates ==
  Returned =>
    /\ Result.recommended_choice = None <=> Result.possible_licenses = <<>>
    /\ Result.recommended_choice # None =>
         Result.recommended_choice[1] \in Range(Result.possible_licenses)

\* C3's case: several candidates, and the recommended one is not the first
C3_Witness ==
  /\ Returned
  /\ Len(Result.possible_licenses) >= 2
  /\ Result.recommended_choice # None
  /\ Result.recommended_choice[1] # Result.possible_licenses[1]

ParseErrors ==
  {"Mismatched parentheses", "Unexpected end of expression",
   "Expected closing parenthesis", "Expected exception after WITH"}

\* C4: when parse fails, with any of the four errors, analyze still returns:
\* no tree, no candidates, no recommendation, risk Critical, the single
\* no-compatible-licenses note and the single generic conflict message.
C4_ParseFailureIsRecovered ==
  (Returned /\ ~parse(expression).ok) =>
    /\ parse(expression).error \in ParseErrors
    /\ Result.original_expression = expression
    /\ Result.parsed_expression = None
    /\ Result.possible_licenses = <<>>
    /\ Result.recommended_choice = None
    /\ Result.risk_level = "Critical"
    /\ Result.compliance_notes = <<NoteNoCompatible>>
    /\ Result.conflicts = <<ConflictComplete>>

\* C4's case: a parse that failed inside a parenthesized sub-expression
C4_Witness ==
  /\ Returned
  /\ parse(expression).error = "Expected closing parenthesis"
  /\ Result.conflicts = <<ConflictComplete>>

\* the other three parse errors occur too
C4_ReachesMismatched ==
  ~(Returned /\ parse(expression).error = "Mismatched parentheses")

C4_ReachesUnexpectedEnd ==
  ~(Returned /\ parse(expression).error = "Unexpected end of expression")

C4_ReachesExpectedException ==
  ~(Returned /\ parse(expression).error = "Expected exception after WITH")

Parsed == Returned /\ Result.parsed_expression # None

Tree == Result.parsed_expression[1]

Rank(license) == new_copyleft_strength_order(license.copyleft_strength)

\* C5: the And operator never gives an empty sequence when both operands are
\* non-empty, and the evaluation of every tree, and of every sub-tree, is
\* non-empty.
C5_AndNeverEmpty ==
  Parsed =>
    /\ Result.possible_licenses # <<>>
    /\ \A n \in SubExprs(Tree) :
         /\ Evaluate(n) # <<>>
         /\ n.kind = "And" =>
              LET L == Evaluate(n.left)
                  R == Evaluate(n.right)
              IN (L # <<>> /\ R # <<>>) =>
                   find_compatible_licenses(L, R) # <<>>

\* C5's case: an And whose operands have no compatible pair at all
C5_Witness ==
  /\ Parsed
  /\ Tree.kind = "And"
  /\ LET L == Evaluate(Tree.left)
         R == Evaluate(Tree.right)
     IN /\ Len(L) >= 2
        /\ \A i \in DOMAIN L, j \in DOMAIN R :
             ~are_licenses_compatible(L[i], R[j])
  /\ Result.possible_licenses # <<>>

\* the pairs (l, r), every r for the first l, then every r for the next l
PairsInOrder(L, R) ==
  [k \in 1..(Len(L) * Len(R)) |->
     <<L[((k - 1) \div Len(R)) + 1], R[((k - 1) % Len(R)) + 1]>>]

\* of a pair, the record of greater rank, the left one on a tie
StrongerOf(pair) ==
  IF Rank(pair[2]) > Rank(pair[1]) THEN pair[2] ELSE pair[1]

\* the records of a sequence whose id no earlier record has
FirstOccurrences(licenses) ==
  LET first(k) == \A j \in 1..(k - 1) : licenses[j].id # licenses[k].id
      keep == {k \in DOMAIN licenses : first(k)}
      nth(n) == CHOOSE k \in keep : Cardinality({j \in keep : j < k}) = n - 1
  IN [n \in 1..Cardinality(keep) |-> licenses[nth(n)]]

AndOverPairs(pairs) ==
  FirstOccurrences([k \in DOMAIN pairs |-> StrongerOf(pairs[k])])

AndConstruction(L, R) ==
  LET compatible_pair(pair) == are_licenses_compatible(pair[1], pair[2])
      first_pass == AndOverPairs(SelectSeq(PairsInOrder(L, R), compatible_pair))
  IN IF first_pass # <<>> THEN first_pass
     ELSE AndOverPairs(PairsInOrder(L, R))

\* C6: And(L, R) is built from the compatible pairs (l, r), L-major: of each
\* pair the stronger record, the left one on a tie, the results reduced to
\* the first occurrence of every id; only when that is empty, from all the
\* pairs in the same way.
C6_AndConstruction ==
  Parsed =>
    \A n \in SubExprs(Tree) :
      n.kind = "And" =>
        Evaluate(n) = AndConstruction(Evaluate(n.left), Evaluate(n.right))

\* C6's case: an And of two operands of two records each, every pair
\* compatible, that keeps the left record of a pair of equal rank and
\* different ids and reduces the four pairs to the first of every id
C6_Witness ==
  /\ Parsed
  /\ Tree.kind = "And"
  /\ LET L == Evaluate(Tree.left)
         R == Evaluate(Tree.right)
     IN /\ Len(L) = 2
        /\ Len(R) = 2
        /\ \A i \in DOMAIN L, j \in DOMAIN R : are_licenses_compatible(L[i], R[j])
        /\ Rank(L[1]) = Rank(R[1])
        /\ L[1].id # R[1].id
        /\ Result.possible_licenses = <<L[1], L[2]>>

\* the leaves of a tree, left to right
RECURSIVE Leaves(_)
Leaves(expr) ==
  IF expr.kind = "License" THEN <<expr>>
  ELSE IF expr.kind = "With" THEN Leaves(expr.left)
  ELSE Leaves(expr.left) \o Leaves(expr.right)

OrOnly(expr) == \A n \in SubExprs(expr) : n.kind \in {"License", "Or"}

\* C7: Or concatenates the sequences of its operands, the left one first,
\* and removes nothing; an expression of leaves and Or alone gives one
\* candidate per leaf, in the order of the leaves.
C7_OrConcatenates ==
  Parsed =>
    /\ \A n \in SubExprs(Tree) :
         n.kind = "Or" =>
           Evaluate(n) = Evaluate(n.left) \o Evaluate(n.right)
    /\ OrOnly(Tree) =>
         LET leaves == Leaves(Tree)
         IN /\ Len(Result.possible_licenses) = Len(leaves)
            /\ \A k \in DOMAIN leaves :
                 <<Result.possible_licenses[k]>> = Evaluate(leaves[k])

\* C7's case: an Or of the same leaf twice, which keeps both records
C7_Witness ==
  /\ Parsed
  /\ Tree.kind = "Or"
  /\ OrOnly(Tree)
  /\ Len(Result.possible_licenses) >= 2
  /\ Result.possible_licenses[1].id = Result.possible_licenses[2].id

Checked == compat # None

\* C8: are_licenses_compatible gives the same answer for (a, b) and (b, a).
C8_CompatibleIsSymmetric ==
  Checked => compat[1] = are_licenses_compatible(lic_b[1], lic_a[1])

\* C8's case: a pair that the id rules decide, GPL-2.0-only against GPL-3.0
C8_Witness ==
  /\ Checked
  /\ lic_b[1].id = Str_GPL_2_0_only
  /\ contains(lic_a[1].id, Str_GPL_3_0)
  /\ lic_a[1].copyleft_strength = "Copyleft"
  /\ lic_b[1].copyleft_strength = "CopyleftLimited"
  /\ compat[1] = FALSE

AlwaysCompatible == {"PublicDomain", "Permissive", "CLA", "PatentLicense"}

NeverCompatible == {"Commercial", "UnstatedLicense"}

\* C9: the rules apply in order, the first match decides. Equal ids are
\* compatible; then a PublicDomain, Permissive, CLA or PatentLicense record
\* on either side is compatible, also against Commercial or UnstatedLicense;
\* a Commercial or UnstatedLicense side makes only the remaining pairs
\* incompatible.
C9_RulesInOrder ==
  Checked =>
    LET a == lic_a[1]
        b == lic_b[1]
        early == \/ a.id = b.id
                 \/ a.copyleft_strength \in AlwaysCompatible
                 \/ b.copyleft_strength \in AlwaysCompatible
    IN /\ early => compat[1]
       /\ (/\ ~early
           /\ \/ a.copyleft_strength \in NeverCompatible
              \/ b.copyleft_strength \in NeverCompatible) => ~compat[1]

\* C9's case: a Permissive record against a Commercial record of another id
C9_Witness ==
  /\ Checked
  /\ lic_a[1].id # lic_b[1].id
  /\ lic_a[1].copyleft_strength = "Commercial"
  /\ lic_b[1].copyleft_strength = "Permissive"
  /\ compat[1]

Parenthesized == Str_LParen[1] \in Range(expression) \/ Str_RParen[1] \in Range(expression)

\* C10: WITH binds tighter than AND, AND tighter than OR, and a
\* parenthesized sub-expression is one operand: "(MIT OR GPL-2.0-only) AND
\* GPL-3.0-only" is And(Or(MIT, GPL-2.0-only), GPL-3.0-only), "MIT OR
\* GPL-2.0-only AND GPL-3.0-only" is Or(MIT, And(GPL-2.0-only,
\* GPL-3.0-only)), "MIT AND GPL-2.0-only WITH Acme" is And(MIT,
\* With(GPL-2.0-only, Acme)); without parentheses no operand of And is an Or
\* and no operand of With is an And or an Or.
C10_Precedence ==
  Returned =>
    /\ expression = Text_ParenOrAnd =>
         Result.parsed_expression
           = Some(And(Or(License(Str_MIT), License(Str_GPL_2_0_only)),
                      License(Str_GPL_3_0_only)))
    /\ expression = Text_OrAnd =>
         Result.parsed_expression
           = Some(Or(License(Str_MIT),
                     And(License(Str_GPL_2_0_only), License(Str_GPL_3_0_only))))
    /\ expression = Text_AndWith =>
         Result.parsed_expression
           = Some(And(License(Str_MIT),
                      With(License(Str_GPL_2_0_only), Str_Acme)))
    /\ (Result.parsed_expression # None /\ ~Parenthesized) =>
         \A n \in SubExprs(Tree) :
           /\ n.kind = "And" => n.left.kind # "Or" /\ n.right.kind # "Or"
           /\ n.kind = "With" => n.left.kind \notin {"And", "Or"}

\* C10's case: the right operand of an AND carries a WITH
C10_Witness ==
  /\ Returned
  /\ expression = Text_AndWith
  /\ Result.parsed_expression # None
  /\ Tree.kind = "And"
  /\ Tree.right.kind = "With"

CountChar(text, ch) == Cardinality({i \in DOMAIN text : text[i] = ch})

\* C11: tokenize fails, with the mismatched-parentheses error, exactly when
\* the number of "(" in the text differs from the number of ")"; a text with
\* equal numbers tokenizes whatever the order of its parentheses.
C11_MismatchIffCountsDiffer ==
  Returned =>
    LET tokens == tokenize(expression)
        equal == CountChar(expression, "(") = CountChar(expression, ")")
    IN /\ tokens.ok <=> equal
       /\ ~tokens.ok => tokens.error = "Mismatched parentheses"

\* C11's case: a ")" that stands before its "(" is accepted
C11_Witness ==
  /\ Returned
  /\ CountChar(expression, "(") = 1
  /\ CountChar(expression, ")") = 1
  /\ expression[1] = ")"
  /\ tokenize(expression).ok

Separators == {" ", "\t", "\n"}

Parentheses == {"(", ")"}

RECURSIVE Concat(_)
Concat(seqs) == IF seqs = <<>> THEN <<>> ELSE seqs[1] \o Concat(Tail(seqs))

IsWordChar(ch) == ch \notin Separators \cup Parentheses

\* the positions of a text at which a run of word characters begins
RunStarts(text) ==
  {i \in DOMAIN text :
     IsWordChar(text[i]) /\ (i = 1 \/ ~IsWordChar(text[i - 1]))}

\* C12: for a text that tokenize accepts, every "(" and ")" is a token of
\* its own, every other token is a maximal run of characters that are
\* neither separators nor parentheses, no token is empty, and the tokens
\* joined are the text without its spaces, tabs and newlines; the empty text
\* has no tokens.
C12_TokensAreRunsAndParentheses ==
  (Returned /\ tokenize(expression).ok) =>
    LET tokens == tokenize(expression).value
        is_separator(ch) == ch \in Separators
        is_kept(ch) == ~is_separator(ch)
    IN /\ \A k \in DOMAIN tokens :
            /\ tokens[k] # <<>>
            /\ \/ tokens[k] \in {<<"(">>, <<")">>}
               \/ \A i \in DOMAIN tokens[k] : IsWordChar(tokens[k][i])
       /\ Concat(tokens) = SelectSeq(expression, is_kept)
       /\ Len(tokens)
            = CountChar(expression, "(") + CountChar(expression, ")")
              + Cardinality(RunStarts(expression))
       /\ expression = <<>> => tokens = <<>>

\* C12's case: a text with a tab, a newline, a space and parentheses that
\* touch a word
C12_Witness ==
  /\ Returned
  /\ expression = Text_Separators
  /\ tokenize(expression)
       = Ok(<<Str_MIT, Str_OR, Str_LParen, Str_Acme, Str_RParen>>)

\* a tree as infix text, every composite node between parentheses
RECURSIVE Serialize(_)
Serialize(expr) ==
  CASE expr.kind = "License" -> expr.id
    [] expr.kind = "And" ->
         Str_LParen \o Serialize(expr.left) \o <<" ">> \o Str_AND \o <<" ">>
         \o Serialize(expr.right) \o Str_RParen
    [] expr.kind = "Or" ->
         Str_LParen \o Serialize(expr.left) \o <<" ">> \o Str_OR \o <<" ">>
         \o Serialize(expr.right) \o Str_RParen
    [] expr.kind = "With" ->
         Str_LParen \o Serialize(expr.left) \o <<" ">> \o Str_WITH \o <<" ">>
         \o expr.exception \o Str_RParen

\* the license ids and the exceptions of a tree
Names(expr) ==
  {n.id : n \in {m \in SubExprs(expr) : m.kind = "License"}}
  \cup {n.exception : n \in {m \in SubExprs(expr) : m.kind = "With"}}

\* C13 as stated: for every text that parses, the tree serialized as infix
\* text with parentheses around every composite node parses to an equal tree.
C13_RoundTrip ==
  Parsed => parse(Serialize(Tree)) = Ok(Tree)

\* C13 as amended: the round trip holds for every text that parses to a tree
\* in which no license id and no exception is the token "(" or ")".
C13_RoundTripWithoutParenthesisNames ==
  (Parsed /\ Names(Tree) \cap {Str_LParen, Str_RParen} = {}) =>
    parse(Serialize(Tree)) = Ok(Tree)

\* C13's case: a text without parentheses whose tree has a composite
\* operand, so that the serialized text differs from it
C13_Witness ==
  /\ Parsed
  /\ expression = Text_OrAnd
  /\ Serialize(Tree) # expression
  /\ parse(Serialize(Tree)) = Ok(Tree)

LowCategories == {"PublicDomain", "Permissive", "CLA"}

MediumCategories ==
  {"CopyleftLimited", "FreeRestricted", "PatentLicense", "ProprietaryFree"}

HighCategories == {"Copyleft", "SourceAvailable"}

RiskTable(category) ==
  CASE category \in LowCategories -> "Low"
    [] category \in MediumCategories -> "Medium"
    [] category \in HighCategories -> "High"
    [] category = "Commercial" -> "Critical"
    [] category = "UnstatedLicense" -> "Unknown"

\* the candidates of maximum rank
MaxRanked(licenses) ==
  {c \in Range(licenses) : \A d \in Range(licenses) : Rank(d) <= Rank(c)}

\* C15: with candidates, strongest_copyleft is the category of maximum rank
\* among them and risk_level is its entry in the table (PublicDomain,
\* Permissive, CLA: Low; CopyleftLimited, FreeRestricted, PatentLicense,
\* ProprietaryFree: Medium; Copyleft, SourceAvailable: High; Commercial:
\* Critical; UnstatedLicense: Unknown); without candidates risk_level is
\* Critical.
C15_RiskByStrongestCategory ==
  Returned =>
    IF Result.possible_licenses = <<>>
    THEN Result.risk_level = "Critical"
    ELSE \E c \in MaxRanked(Result.possible_licenses) :
           /\ Result.strongest_copyleft = c.copyleft_strength
           /\ Result.risk_level = RiskTable(c.copyleft_strength)

\* C15's case: several candidates, the strongest category is not the first
\* candidate's, and the risk is High through SourceAvailable
C15_Witness ==
  /\ Returned
  /\ Len(Result.possible_licenses) >= 2
  /\ Result.possible_licenses[1].copyleft_strength # Result.strongest_copyleft
  /\ Result.strongest_copyleft = "SourceAvailable"
  /\ Result.risk_level = "High"

\* the first position of minimum rank
FirstOfMinimumRank(licenses) ==
  CHOOSE k \in DOMAIN licenses :
    /\ \A j \in DOMAIN licenses : Rank(licenses[k]) <= Rank(licenses[j])
    /\ \A j \in 1..(k - 1) : Rank(licenses[j]) > Rank(licenses[k])

\* C16: with candidates, recommended_choice is the first candidate, in the
\* candidates' order, whose rank is the minimum rank among them.
C16_RecommendedIsFirstOfMinimumRank ==
  (Returned /\ Result.possible_licenses # <<>>) =>
    Result.recommended_choice =
      Some(Result.possible_licenses[FirstOfMinimumRank(Result.possible_licenses)])

\* C16's case: two different candidates share the minimum rank and the one
\* that comes first is recommended
C16_Witness ==
  /\ Returned
  /\ Len(Result.possible_licenses) = 2
  /\ Result.possible_licenses[1] # Result.possible_licenses[2]
  /\ Rank(Result.possible_licenses[1]) = Rank(Result.possible_licenses[2])
  /\ Result.possible_licenses[1].copyleft_strength = "Permissive"
  /\ Result.recommended_choice = Some(Result.possible_licenses[1])

\* the ids of the candidates, as a set
IdSet(licenses) == {c.id : c \in Range(licenses)}

\* C17: conflicts depends on the final candidates only: the generic message
\* is in it exactly when there is no candidate, the GPL-2.0-only/GPL-3.0
\* message exactly when some candidate's id is "GPL-2.0-only" and some
\* candidate's id contains "GPL-3.0", and it holds nothing else.
C17_ConflictsFromCandidatesOnly ==
  Returned =>
    LET ids == IdSet(Result.possible_licenses)
        reported == Range(Result.conflicts)
    IN /\ ConflictComplete \in reported <=> Result.possible_licenses = <<>>
       /\ ConflictGpl \in reported <=>
            /\ Str_GPL_2_0_only \in ids
            /\ \E id \in ids : contains(id, Str_GPL_3_0)
       /\ reported \subseteq {ConflictComplete, ConflictGpl}
       /\ Len(Result.conflicts) = Cardinality(reported)

\* C17's case: the candidates of an Or hold "GPL-2.0-only" and an id that
\* contains "GPL-3.0" without being equal to it, and the GPL message alone
\* is reported
C17_Witness ==
  /\ Parsed
  /\ Tree.kind = "Or"
  /\ Str_GPL_2_0_only \in IdSet(Result.possible_licenses)
  /\ Str_GPL_3_0_only \in IdSet(Result.possible_licenses)
  /\ Result.conflicts = <<ConflictGpl>>

\* C18: registry lookup is case-insensitive: for every entry of the
\* registry, a leaf whose id equals the entry's primary identifier up to
\* letter case evaluates to that entry's record.
C18_LookupIsCaseInsensitive ==
  (Parsed /\ Tree.kind = "License") =>
    \A k \in DOMAIN license_db :
      to_lowercase(license_db[k].id) = to_lowercase(Tree.id) =>
        Result.possible_licenses = <<license_db[k]>>

\* the record the claim gives an id the registry does not hold
Synthetic(id) == NewLicense(id, Str_Unknown_License \o id, "UnstatedLicense")

\* the leaves of the tree whose id, lowercased, is no key of the registry
UnknownLeaves(expr) ==
  {n \in SubExprs(expr) :
     n.kind = "License" /\ to_lowercase(n.id) \notin DOMAIN license_db}

\* C19: an id the registry does not hold is no error: its leaf evaluates to
\* exactly one record with the raw id, the name "Unknown License: <id>" and
\* the category UnstatedLicense; when the tree is such a leaf alone, analyze
\* gives that one candidate, risk_level Unknown and compliance notes that
\* hold the manual-legal-review line.
C19_UnknownIdIsSyntheticRecord ==
  Parsed =>
    /\ \A n \in UnknownLeaves(Tree) : Evaluate(n) = <<Synthetic(n.id)>>
    /\ Tree \in UnknownLeaves(Tree) =>
         /\ Result.possible_licenses = <<Synthetic(Tree.id)>>
         /\ Result.risk_level = "Unknown"
         /\ Note("Unknown license: Manual legal review required", <<>>)
              \in Range(Result.compliance_notes)

\* C19's case: a registry that holds entries, and a text that is one id it
\* does not hold
C19_Witness ==
  /\ Parsed
  /\ license_db # <<>>
  /\ Tree \in UnknownLeaves(Tree)
  /\ Len(tokenize(expression).value) = 1
  /\ Result.possible_licenses = <<Synthetic(expression)>>
  /\ Result.risk_level = "Unknown"

\* C20: two license records are equal exactly when their ids are equal; the
\* equality of records ignores the display name and the category.
C20_EqualIffIdsEqual ==
  Checked =>
    (NewLicense_eq(lic_a[1], lic_b[1]) <=> lic_a[1].id = lic_b[1].id)

\* the ids of the candidates that differ from id, in the candidates' order
OtherIds(licenses, id) ==
  SelectSeq(Ids(licenses), LAMBDA other : other # id)

\* C21: with candidates, compliance_notes is the note naming the
\* recommended id, then 1 to 3 guidance lines chosen by the recommended
\* category alone, then, exactly when the candidates hold more than one
\* distinct id, one note listing comma-joined, in the candidates' order, the
\* ids of the candidates whose id differs from the recommended id.
C21_NotesOfCandidates ==
  (Returned /\ Result.possible_licenses # <<>>) =>
    LET C == Result.possible_licenses
        rec == Result.recommended_choice[1]
        guidance == GuidanceNotes(rec.copyleft_strength)
        head == <<Note("Recommended license choice: {}", rec.id)>> \o guidance
    IN /\ Len(guidance) \in 1..3
       /\ Result.compliance_notes =
            IF Cardinality(IdSet(C)) > 1
            THEN Append(head, Note("Alternative licenses available: {}",
                                   JoinComma(OtherIds(C, rec.id))))
            ELSE head

\* C21's case: two candidates of two ids, the second recommended with three
\* guidance lines, and the alternatives note names the first
C21_Witness ==
  /\ Returned
  /\ Len(Result.possible_licenses) = 2
  /\ Cardinality(IdSet(Result.possible_licenses)) = 2
  /\ Result.recommended_choice = Some(Result.possible_licenses[2])
  /\ Len(Result.compliance_notes) = 5
  /\ Result.compliance_notes[5] =
       Note("Alternative licenses available: {}", Result.possible_licenses[1].id)

\* the tree with every license id and every exception in upper case
RECURSIVE UpperNames(_)
UpperNames(expr) ==
  CASE expr.kind = "License" -> License(to_uppercase(expr.id))
    [] expr.kind = "With" ->
         With(UpperNames(expr.left), to_uppercase(expr.exception))
    [] expr.kind = "And" -> And(UpperNames(expr.left), UpperNames(expr.right))
    [] expr.kind = "Or" -> Or(UpperNames(expr.left), UpperNames(expr.right))

\* the leftmost leaf of a tree
RECURSIVE LeftmostLeaf(_)
LeftmostLeaf(expr) ==
  IF expr.kind = "License" THEN expr ELSE LeftmostLeaf(expr.left)

\* C22: the keywords OR, AND and WITH are recognised in any letter case and
\* by position only: the text in upper case parses to the same tree (names
\* apart) or the same error as the text itself; a first token other than
\* "(" is a leaf whatever it spells; "MIT or Acme" is Or(MIT, Acme) and
\* "MIT AND or" is And(MIT, or).
C22_KeywordsByPositionAnyCase ==
  Returned =>
    LET read == parse(expression)
        upper == parse(to_uppercase(expression))
        tokens == tokenize(expression).value
    IN /\ IF read.ok THEN upper = Ok(UpperNames(read.value)) ELSE upper = read
       /\ (read.ok /\ tokens[1] # Str_LParen) =>
            LeftmostLeaf(read.value) = License(tokens[1])
       /\ expression = Text_LowerOr =>
            read = Ok(Or(License(Str_MIT), License(Str_Acme)))
       /\ expression = Text_AndLeafOr =>
            read = Ok(And(License(Str_MIT), License(to_lowercase(Str_OR))))

\* C22's case: the keywords spelled in lower and mixed case, each once as an
\* operator and once as a name
C22_Witness ==
  /\ Parsed
  /\ expression = Text_MixedCase
  /\ Tree = And(License(to_lowercase(Str_AND)),
                With(License(to_lowercase(Str_OR)), to_lowercase(Str_WITH)))

\* C23: chains of one operator nest to the left: no Or is the right operand
\* of an Or and no And the right operand of an And unless it was written
\* between parentheses; "MIT OR Acme OR GPL-2.0-only" is
\* Or(Or(MIT, Acme), GPL-2.0-only), the AND chain is And(And(..), ..) and
\* the WITH chain is With(With(MIT, Acme), GPL-2.0-only).
C23_ChainsNestLeft ==
  Parsed =>
    LET A == License(Str_MIT)
        B == License(Str_Acme)
        G == License(Str_GPL_2_0_only)
    IN /\ ~Parenthesized =>
            \A n \in SubExprs(Tree) :
              /\ n.kind = "Or" => n.right.kind # "Or"
              /\ n.kind = "And" => n.right.kind \notin {"And", "Or"}
       /\ expression = Text_OrChain => Tree = Or(Or(A, B), G)
       /\ expression = Text_AndChain => Tree = And(And(A, B), G)
       /\ expression = Text_WithChain =>
            Tree = With(With(A, Str_Acme), Str_GPL_2_0_only)

\* C23's case: a chain of two ORs
C23_Witness ==
  /\ Parsed
  /\ expression = Text_OrChain
  /\ Tree.kind = "Or"
  /\ Tree.left.kind = "Or"
  /\ Tree.right.kind = "License"

\* some id rule or the family rule of specific compatibility matches (a, b)
IdRuleMatches(a, b) ==
  LET OneWay(x, y) ==
        \/ x.id \in {Str_GPL_2_0_only, Str_GPL_2_0_or_later}
             /\ contains(y.id, Str_GPL_3_0)
        \/ contains(x.id, Str_LGPL_3_0) /\ contains(y.id, Str_GPL_3_0)
        \/ x.id = Str_LGPL_2_1_only /\ y.id = Str_LGPL_2_1_or_later
        \/ x.id = Str_LGPL_3_0_only /\ y.id = Str_LGPL_3_0_or_later
        \/ x.id \in {Str_MIT, Str_Apache_2_0} /\ y.id = Str_LGPL_3_0
        \/ x.id = Str_MIT /\ y.id = Str_LGPL_2_1
        \/ x.id \in {Str_CC0_1_0, Str_Unlicense}
  IN \/ OneWay(a, b)
     \/ OneWay(b, a)
     \/ \E family \in Range(LicenseFamilies) :
          /\ \E m \in Range(family) : contains(a.id, m)
          /\ \E m \in Range(family) : contains(b.id, m)

\* the pairs of categories that are_licenses_compatible hands to
\* check_specific_compatibility
Delegated(a, b) ==
  LET cats == {a.copyleft_strength, b.copyleft_strength}
  IN /\ a.id # b.id
     /\ cats \subseteq {"ProprietaryFree", "FreeRestricted", "CopyleftLimited",
                        "Copyleft", "SourceAvailable"}
     /\ cats \notin {{"ProprietaryFree"}, {"FreeRestricted"}, {"Copyleft"},
                     {"Copyleft", "SourceAvailable"}}

\* the band the claim names
UpperBand == {"Copyleft", "SourceAvailable", "Commercial", "UnstatedLicense"}

LastToken(text) == tokenize(text).value[Len(tokenize(text).value)]

\* C25: the errors of parse. Unequal parenthesis counts give "Mismatched
\* parentheses" whatever else the text holds. With equal counts: "Expected
\* exception after WITH" is given when the tokens end with a WITH keyword
\* after an operand; "Unexpected end of expression" when the text has no
\* token or ends with OR, AND or "(" ; "Expected closing parenthesis" only
\* on a text that holds a "(". "MIT WITH", "MIT OR", "MIT AND", the empty
\* text and "( MIT Acme )" give the errors named.
C25_ErrorTaxonomy ==
  Returned =>
    LET read == parse(expression)
        equal == CountChar(expression, "(") = CountChar(expression, ")")
        tokens == tokenize(expression).value
    IN /\ ~equal => read = Err("Mismatched parentheses")
       /\ (equal /\ ~read.ok) =>
            /\ read.error \in ParseErrors \ {"Mismatched parentheses"}
            /\ read.error = "Expected exception after WITH" =>
                 /\ Len(tokens) >= 2
                 /\ to_uppercase(LastToken(expression)) = Str_WITH
            /\ read.error = "Unexpected end of expression" =>
                 \/ tokens = <<>>
                 \/ to_uppercase(LastToken(expression)) \in {Str_OR, Str_AND}
                 \/ LastToken(expression) = Str_LParen
            /\ read.error = "Expected closing parenthesis" =>
                 CountChar(expression, "(") >= 1
       /\ expression = <<>> => read = Err("Unexpected end of expression")
       /\ expression \in {JoinSpace(<<Str_MIT, Str_OR>>),
                          JoinSpace(<<Str_MIT, Str_AND>>)} =>
            read = Err("Unexpected end of expression")
       /\ expression = JoinSpace(<<Str_MIT, Str_WITH>>) =>
            read = Err("Expected exception after WITH")
       /\ expression = Text_GroupOfTwo =>
            read = Err("Expected closing parenthesis")

\* C25's case: equal parenthesis counts and the tokens run out after a "("
\* where an operand is required
C25_Witness ==
  /\ Returned
  /\ CountChar(expression, "(") = CountChar(expression, ")")
  /\ expression # <<>>
  /\ LastToken(expression) = Str_LParen
  /\ parse(expression) = Err("Unexpected end of expression")
  /\ Result.parsed_expression = None

\* the tokens a tree accounts for: one for each license id, operator and
\* exception
RECURSIVE NodeTokens(_)
NodeTokens(expr) ==
  CASE expr.kind = "License" -> 1
    [] expr.kind = "With" -> 2 + NodeTokens(expr.left)
    [] OTHER -> 1 + NodeTokens(expr.left) + NodeTokens(expr.right)

\* C26: parse ends with Ok or Err on every text. From every position p of
\* the tokens, the descent ends at a position that is never beyond the
\* number of tokens; when it succeeds it has moved forward by the tokens of
\* its tree and two for every pair of parentheses, hence by at least one,
\* and at the end of the tokens it fails without reading any.
C26_ParseAdvancesWithinTokens ==
  (Returned /\ tokenize(expression).ok) =>
    LET tokens == tokenize(expression).value
    IN /\ parse(expression).ok \in BOOLEAN
       /\ \A p \in 0..Len(tokens) :
            LET r == parse_or_expression(tokens, p)
            IN /\ r.pos \in p..Len(tokens)
               /\ r.ok =>
                    /\ r.pos >= p + NodeTokens(r.expr)
                    /\ (r.pos - p - NodeTokens(r.expr)) % 2 = 0
               /\ ~r.ok => r.error \in ParseErrors
               /\ p = Len(tokens) =>
                    r = ParseErr("Unexpected end of expression", p)

\* C26's case: the descent through the second "(" of
\* "(MIT OR Acme) AND (Acme OR MIT)" ends after its ")", the last token
C26_Witness ==
  /\ Parsed
  /\ expression = Text_OrAndOr
  /\ parse_or_expression(tokenize(expression).value, 6) =
       ParseOk(Or(License(Str_Acme), License(Str_MIT)), 11)

\* C27: the candidates of analyze are empty exactly when parse failed; the
\* generic conflict message and the no-compatible-licenses note appear
\* exactly then, never for a text that parses, whatever the compatibility
\* of its licenses.
C27_EmptyIffParseFailed ==
  Returned =>
    LET failed == ~parse(expression).ok
    IN /\ Result.possible_licenses = <<>> <=> failed
       /\ ConflictComplete \in Range(Result.conflicts) <=> failed
       /\ NoteNoCompatible \in Range(Result.compliance_notes) <=> failed

\* C27's case: an And of two single licenses that are incompatible, with a
\* candidate, no conflict and no no-compatible-licenses note
C27_Witness ==
  /\ Parsed
  /\ Tree.kind = "And"
  /\ Tree.left.kind = "License"
  /\ Tree.right.kind = "License"
  /\ ~are_licenses_compatible(Evaluate(Tree.left)[1], Evaluate(Tree.right)[1])
  /\ Len(Result.possible_licenses) = 1
  /\ Result.conflicts = <<>>
  /\ NoteNoCompatible \notin Range(Result.compliance_notes)

\* C28: parse does not require that every token is consumed. When the
\* expression tier succeeds from the first token, parse is Ok with its tree
\* wherever it stopped; the tree is that of the tokens up to there, the
\* candidates are those of the tree, and when tokens remain, analyze reports
\* what it reports for those leading tokens alone (where they are a text
\* that tokenizes). "MIT Acme" gives the leaf MIT and "MIT WITH Acme GPL-2.0-only"
\* gives With(MIT, Acme).
C28_TrailingTokensIgnored ==
  (Returned /\ tokenize(expression).ok) =>
    LET tokens == tokenize(expression).value
        r == parse_or_expression(tokens, 0)
        leading == SubSeq(tokens, 1, r.pos)
    IN r.ok =>
         /\ Parsed
         /\ Tree = r.expr
         /\ parse_or_expression(leading, 0) = r
         /\ Result.possible_licenses = Evaluate(r.expr)
         /\ (r.pos < Len(tokens) /\ tokenize(JoinSpace(leading)).ok) =>
              [Result EXCEPT !.original_expression = <<>>] =
                [analyze(license_db, JoinSpace(leading))
                   EXCEPT !.original_expression = <<>>]
         /\ expression = JoinSpace(<<Str_MIT, Str_Acme>>) =>
              Tree = License(Str_MIT)
         /\ expression = Text_WithThenToken =>
              Tree = With(License(Str_MIT), Str_Acme)

\* C28's case: a WITH expression followed by a token that does not continue
\* it; the candidates are those of the license before WITH
C28_Witness ==
  /\ Parsed
  /\ expression = Text_WithThenToken
  /\ Tree = With(License(Str_MIT), Str_Acme)
  /\ Len(Result.possible_licenses) = 1
  /\ to_lowercase(Result.possible_licenses[1].id) = to_lowercase(Str_MIT)
  /\ Result.conflicts = <<>>

\* C29: in the sequence evaluate gives for any node of the tree, two
\* records of one id are equal in id, name and category; a record of the
\* registry and a record made for an unknown id never meet under one id.
C29_SameIdSameRecord ==
  Parsed =>
    \A n \in SubExprs(Tree) :
      \A c, d \in Range(Evaluate(n)) :
        c.id = d.id =>
          /\ c.name = d.name
          /\ c.copyleft_strength = d.copyleft_strength
          /\ c \in Range(license_db) <=> d \in Range(license_db)

\* C29's case: one id in two letter cases on a registry whose key for it is
\* in upper case, so that both leaves miss the registry, which holds a
\* record with the id of one of them
C29_Witness ==
  /\ Parsed
  /\ expression = Text_TwoCases
  /\ Str_MIT \in DOMAIN license_db
  /\ license_db[Str_MIT].id = Str_MIT
  /\ Ids(Result.possible_licenses) = <<Str_MIT, to_lowercase(Str_MIT)>>
  /\ Result.possible_licenses[1] = Synthetic(Str_MIT)
  /\ Result.possible_licenses[1] # license_db[Str_MIT]

\* the minimum rank of a non-empty sequence of records
MinRank(licenses) ==
  CHOOSE m \in {Rank(c) : c \in Range(licenses)} :
    \A c \in Range(licenses) : m <= Rank(c)

\* C30: at every And node whose operands evaluate to L and R, every record
\* of the result is a record of L or of R, no two records of the result
\* share an id, and every record of the result has a rank that is at least
\* the minimum rank of L and at least the minimum rank of R; so the
\* recommended license of the And is of no lower rank than the recommended
\* license of either operand.
C30_AndResultBounds ==
  Parsed =>
    \A n \in {m \in SubExprs(Tree) : m.kind = "And"} :
      LET L == Evaluate(n.left)
          R == Evaluate(n.right)
          result == Evaluate(n)
      IN /\ Range(result) \subseteq Range(L) \cup Range(R)
         /\ Cardinality(IdSet(result)) = Len(result)
         /\ \A c \in Range(result) :
              Rank(c) >= MinRank(L) /\ Rank(c) >= MinRank(R)
         /\ Rank(choose_recommended_license(result)[1])
              >= Rank(choose_recommended_license(L)[1])
         /\ Rank(choose_recommended_license(result)[1])
              >= Rank(choose_recommended_license(R)[1])

\* C30's case: the left operand offers two licenses of different ranks, and
\* the recommended license of the And is of higher rank than the one
\* recommended for the left operand alone
C30_Witness ==
  /\ Parsed
  /\ Tree.kind = "And"
  /\ Len(Evaluate(Tree.left)) = 2
  /\ Rank(Evaluate(Tree.left)[1]) # Rank(Evaluate(Tree.left)[2])
  /\ Rank(Result.recommended_choice[1])
       > Rank(choose_recommended_license(Evaluate(Tree.left))[1])
  /\ Result.recommended_choice[1] \in Range(Evaluate(Tree.right))

====
